---- MODULE Spec2Model ----
(***************************************************************************)
(* pysequencer: LevelSequenceNode / SequenceCamera camera import, the      *)
(* NodeCache reflection cache and the NodeBase attribute proxy.            *)
(*                                                                         *)
(* The host editor (module unreal) is modelled by the state it keeps for   *)
(* one level sequence: its spawnable bindings with their key channels, the *)
(* sections of its camera cut track, its playback range, and the asset     *)
(* store.  Python's None is the empty tuple, a present value x is <<x>>.   *)
(***************************************************************************)
EXTENDS Integers, Sequences, FiniteSets, TLC

None == <<>>
Some(x) == <<x>>

Min(S) == CHOOSE x \in S : \A y \in S : x <= y
Max(S) == CHOOSE x \in S : \A y \in S : x >= y

(***************************************************************************)
(* Bounds of the model.                                                    *)
(***************************************************************************)
\* number of operations called on the sequence in one behaviour
MaxOps == 2

(***************************************************************************)
(* Inputs.                                                                 *)
(***************************************************************************)
SequencePath == "/Game/Shots/Test/LS_Test_Main"
Paths == {SequencePath, "/Game/Shots/Test/LS_Other"}

FbxFiles == {"shot0010.fbx", "shot0020.fbx", "static.fbx", "broken.fbx"}

\* pathlib.Path(fbx_path).stem
Stem(fbx_path) ==
    CASE fbx_path = "shot0010.fbx" -> "shot0010"
      [] fbx_path = "shot0020.fbx" -> "shot0020"
      [] fbx_path = "static.fbx" -> "static"
      [] OTHER -> "broken"

\* unreal.SequencerTools.import_level_sequence_fbx: the status it reports
FbxImportStatus(fbx_path) == fbx_path # "broken.fbx"

\* ... and the key frames it writes to the channels of the binding; a
\* channel may come without keys (a camera that is not animated)
FbxChannels(fbx_path) ==
    CASE fbx_path = "shot0010.fbx" -> << <<1, 3>>, <<2, 3>> >>
      [] fbx_path = "shot0020.fbx" -> << <<-2, -1>>, <<>> >>
      [] fbx_path = "static.fbx" -> << <<>> >>
      [] OTHER -> <<>>

CameraNames == {"shot_0010", "shot_0020"}
StartFrames == {-3, 0, 1}
OptStartFrames == {None} \cup {Some(f) : f \in StartFrames}
OptNames == {None, Some("shot_0010")}

\* CameraOrder
stack == "stack"
one_by_one == "one_by_one"
CameraOrder == {stack, one_by_one}

\* a camera data item dict(camera_name=fbx_path), as the list of its items
Item(n, f) == << <<n, f>> >>
CameraLists ==
    { <<>>,
      << <<>> >>,
      << Item("shot_0010", "shot0010.fbx") >>,
      << Item("shot_0010", "shot0010.fbx"), Item("shot_0020", "shot0020.fbx") >>,
      << Item("shot_0020", "shot0020.fbx"), Item("shot_0010", "shot0010.fbx") >>,
      << Item("shot_0010", "shot0010.fbx"), Item("shot_0020", "shot0010.fbx") >>,
      << Item("shot_0010", "shot0020.fbx"), Item("shot_0010", "shot0010.fbx") >>,
      << Item("shot_0010", "shot0010.fbx"), Item("shot_0020", "static.fbx") >>,
      << Item("shot_0020", "shot0020.fbx"), Item("shot_0010", "broken.fbx") >> }

(***************************************************************************)
(* State.                                                                  *)
(***************************************************************************)
VARIABLES
    world,      \* the host's state of the level sequence at SequencePath
    assets,     \* EditorAssetLibrary: the paths with an asset
    saved,      \* the paths saved by save_asset
    created,    \* number of create_asset calls made
    ops,        \* number of operations called so far
    last,       \* the last call: its arguments, what it saw and its result
    cache,      \* NodeCacheSingleton.__CACHE_DATA: node type -> NodeCache
    constructed,\* node type -> number of NodeCache objects constructed for it
    nlast       \* the last call on the node caches and the node proxy

seqVars == <<world, assets, saved, created, ops, last>>
nodeVars == <<cache, constructed, nlast>>
vars == <<world, assets, saved, created, ops, last, cache, constructed, nlast>>

NoCamera == [proxy |-> 0, start |-> None, end |-> None]

NewWorld ==
    [ spawnables |-> <<>>,      \* bindings: name, isCamera, channels
      cutTrack |-> FALSE,       \* a MovieSceneCameraCutTrack master track exists
      sections |-> <<>>,        \* its sections: binding (0: none), range
      spawned |-> 0,            \* actors spawned in the editor world
      destroyed |-> 0,          \* actors destroyed
      opened |-> FALSE,         \* the asset editor is open
      display_rate |-> [numerator |-> 30, denominator |-> 1],
      playback |-> [start |-> Some(0), end |-> Some(150)],
      view |-> [start |-> None, end |-> None] ]

(***************************************************************************)
(* SequenceCamera.                                                         *)
(***************************************************************************)
\* the channels of the binding (and of its child possessables) that have keys
KeyedChannels(channels) == {i \in 1..Len(channels) : Len(channels[i]) > 0}

\* SequenceCamera.__setup_camera_data: start is the smallest first key and
\* end the largest last key over the channels with keys, None without any
SetupCameraData(w, proxy) ==
    LET channels == w.spawnables[proxy].channels
        keyed == KeyedChannels(channels)
    IN  [ proxy |-> proxy,
          start |-> IF keyed = {} THEN None
                    ELSE Some(Min({channels[i][1] : i \in keyed})),
          end |-> IF keyed = {} THEN None
                  ELSE Some(Max({channels[i][Len(channels[i])] : i \in keyed})) ]

\* the inner loop of set_start_frame over the keys of one channel
ShiftKeys(keys, self_start, start) ==
    LET offset == start - self_start
        ch_start == keys[1]
        sub_offset == self_start - ch_start
    IN  [k \in 1..Len(keys) |-> keys[k] + sub_offset + offset]

\* SequenceCamera.set_start_frame, for a camera whose start is not None
set_start_frame(w, camera, start) ==
    LET channels == w.spawnables[camera.proxy].channels
        moved == [i \in 1..Len(channels) |->
                    IF Len(channels[i]) > 0
                    THEN ShiftKeys(channels[i], camera.start[1], start)
                    ELSE channels[i]]
        w2 == [w EXCEPT !.spawnables[camera.proxy].channels = moved]
    IN  [world |-> w2, camera |-> SetupCameraData(w2, camera.proxy)]

\* LevelSequenceLibrary.get_bound_objects of a binding id in the open sequence
BoundObjects(w, binding) ==
    IF binding \in 1..Len(w.spawnables) THEN {binding} ELSE {}

\* SequenceCamera.camera_cut_sections: the sections whose bound objects are
\* the camera's, in track order
camera_cut_sections(w, proxy) ==
    {i \in 1..Len(w.sections) :
        /\ BoundObjects(w, w.sections[i].binding) # {}
        /\ BoundObjects(w, w.sections[i].binding) = BoundObjects(w, proxy)}

\* LevelSequenceNode.camera_cut_track: the master track, added when missing
camera_cut_track(w) == [w EXCEPT !.cutTrack = TRUE]

\* the loop over the sections in import_camera: binding id and range of each
SetSections(w, idx, camera) ==
    [w EXCEPT !.sections =
        [i \in 1..Len(w.sections) |->
            IF i \in idx
            THEN [binding |-> camera.proxy,
                  range |-> Some(<<camera.start[1], camera.end[1]>>)]
            ELSE w.sections[i]]]

\* the same loop for a camera without keys: set_range(None, None) is refused
\* by the host after the first section got its binding id
SetSectionsNoKeys(w, idx, camera) ==
    [w EXCEPT !.sections[Min(idx)].binding = camera.proxy]

\* AddSection without the "if not sections" test: a section is added on
\* every import
AddSectionAlways(w, camera, new_section) ==
    IF ~new_section \/ camera.start = None
    THEN [world |-> w, status |-> IF new_section THEN "TypeError" ELSE "ok",
          camera |-> IF new_section THEN NoCamera ELSE camera]
    ELSE
        LET w1 == camera_cut_track(w)
            w2 == [w1 EXCEPT !.sections = Append(@, [binding |-> 0, range |-> None])]
            sections == camera_cut_sections(w1, camera.proxy) \cup {Len(w2.sections)}
        IN  [world |-> SetSections(w2, sections, camera), status |-> "ok",
             camera |-> camera]

\* import_camera from "add a section set current camera" on
AddSection(w, camera, new_section) ==
    IF ~new_section THEN [world |-> w, status |-> "ok", camera |-> camera]
    ELSE
        LET w1 == camera_cut_track(w)
            found == camera_cut_sections(w1, camera.proxy)
            w2 == IF found = {}
                  THEN [w1 EXCEPT !.sections =
                            Append(@, [binding |-> 0, range |-> None])]
                  ELSE w1
            sections == IF found = {} THEN {Len(w2.sections)} ELSE found
        IN  IF camera.start = None
            THEN [world |-> SetSectionsNoKeys(w2, sections, camera),
                  status |-> "TypeError", camera |-> NoCamera]
            ELSE [world |-> SetSections(w2, sections, camera),
                  status |-> "ok", camera |-> camera]

\* import_camera from "set camera start frame" on; start_frame is tested
\* for truth, so None and 0 leave the keys where the import put them
SetStartAndSection(w, camera, start_frame, new_section) ==
    IF start_frame # None /\ start_frame # Some(0)
    THEN IF camera.start = None
         THEN [world |-> w, status |-> "TypeError", camera |-> NoCamera]
         ELSE LET r == set_start_frame(w, camera, start_frame[1])
              IN  AddSection(r.world, r.camera, new_section)
    ELSE AddSection(w, camera, new_section)

\* SequenceCamera.import_camera; status "None" is the bare return
import_camera(w, fbx_path, proxy, name, start_frame, new_section) ==
    LET w0 == [w EXCEPT !.opened = TRUE]
        nm == IF name = None THEN Stem(fbx_path) ELSE name[1]
        spawn == proxy = None
        w1 == IF spawn
              THEN [w0 EXCEPT !.spawned = @ + 1,
                              !.spawnables = Append(@,
                                  [name |-> nm, isCamera |-> TRUE, channels |-> <<>>])]
              ELSE w0
        p == IF spawn THEN Len(w1.spawnables) ELSE proxy[1]
        import_status == FbxImportStatus(fbx_path)
        w2 == IF import_status
              THEN [w1 EXCEPT !.spawnables[p].channels = FbxChannels(fbx_path)]
              ELSE w1
        w3 == IF spawn THEN [w2 EXCEPT !.destroyed = @ + 1] ELSE w2
    IN  IF ~import_status
        THEN [world |-> w3, status |-> "None", camera |-> NoCamera]
        ELSE SetStartAndSection(w3, SetupCameraData(w3, p), start_frame, new_section)

(***************************************************************************)
(* LevelSequenceNode.                                                      *)
(***************************************************************************)
\* LevelSequenceNode.cameras: the spawnables whose template is a CineCameraActor
cameras(w) == {i \in 1..Len(w.spawnables) : w.spawnables[i].isCamera}

\* MatchCamera over all spawnables, cameras or not
MatchAnySpawnable(w, name) ==
    LET found == {i \in 1..Len(w.spawnables) : w.spawnables[i].name = name}
    IN  IF found = {} THEN None ELSE Some(Min(found))

\* next((x for x in self.cameras if x.name == name), None)
MatchCamera(w, name) ==
    LET found == {i \in cameras(w) : w.spawnables[i].name = name}
    IN  IF found = {} THEN None ELSE Some(Min(found))

\* LevelSequenceNode.add_camera
add_camera(w, fbx_path, name, start_frame, match_camera_name) ==
    LET nm == IF name = None THEN Stem(fbx_path) ELSE name[1]
        camera_proxy == IF match_camera_name THEN MatchCamera(w, nm) ELSE None
        r == import_camera(w, fbx_path, camera_proxy, Some(nm), start_frame, TRUE)
    IN  IF r.status = "None"
        THEN [r EXCEPT !.status = "LevelSequenceNodeError"]
        ELSE r

\* LevelSequenceNode.fps
fps(w) == w.display_rate.numerator \div w.display_rate.denominator

\* LevelSequenceNode.start setter; the host refuses None for a frame number
SetStart(w, frame) ==
    IF frame = None THEN [world |-> w, status |-> "TypeError"]
    ELSE [world |-> [w EXCEPT !.playback.start = frame,
                              !.view.start = Some(<<frame[1], fps(w)>>)],
          status |-> "ok"]

\* LevelSequenceNode.end setter
SetEnd(w, frame) ==
    IF frame = None THEN [world |-> w, status |-> "TypeError"]
    ELSE [world |-> [w EXCEPT !.playback.end = frame,
                              !.view.end = Some(<<frame[1], fps(w)>>)],
          status |-> "ok"]

\* one pass of the loop of add_cameras: acc holds world, start_frame, end,
\* result and status; r is what add_camera gave
AddCamerasStep(acc, r, order, auto_frame_range) ==
    IF r.status # "ok"
    THEN [acc EXCEPT !.world = r.world, !.status = r.status, !.result = <<>>]
    ELSE [ world |-> r.world,
           status |-> "ok",
           start_frame |-> IF order = one_by_one
                           THEN Some(r.camera.end[1] + 1)
                           ELSE acc.start_frame,
           result |-> Append(acc.result, r.camera),
           end |-> IF ~auto_frame_range THEN acc.end
                   ELSE IF acc.end = None \/ order = one_by_one
                   THEN r.camera.end
                   ELSE IF acc.end[1] < r.camera.end[1]
                   THEN r.camera.end
                   ELSE acc.end ]

RECURSIVE AddCamerasLoop(_, _, _, _, _)
\* the loop of add_cameras over the rest of the list; only the first item
\* of each camera data dict is used, an empty dict is passed over
AddCamerasLoop(acc, rest, match_camera_name, order, auto_frame_range) ==
    IF rest = <<>> \/ acc.status # "ok" THEN acc
    ELSE IF Head(rest) = <<>>
    THEN AddCamerasLoop(acc, Tail(rest), match_camera_name, order, auto_frame_range)
    ELSE
        LET camera_name == Head(rest)[1][1]
            camera_path == Head(rest)[1][2]
            after == { AddCamerasStep(acc, r, order, auto_frame_range) :
                         r \in { add_camera(acc.world, camera_path, Some(camera_name),
                                            acc.start_frame, match_camera_name) } }
        IN  CHOOSE out \in
                { AddCamerasLoop(next, Tail(rest), match_camera_name, order,
                                 auto_frame_range) : next \in after } : TRUE

\* add_cameras after the loop: the frame range of the sequence
SetFrameRange(acc, start_frame, auto_frame_range) ==
    IF acc.status # "ok" \/ ~auto_frame_range
    THEN [world |-> acc.world, status |-> acc.status, result |-> acc.result]
    ELSE LET s == SetStart(acc.world, start_frame)
             e == SetEnd(s.world, acc.end)
         IN  IF s.status # "ok"
             THEN [world |-> s.world, status |-> s.status, result |-> <<>>]
             ELSE IF e.status # "ok"
             THEN [world |-> e.world, status |-> e.status, result |-> <<>>]
             ELSE [world |-> e.world, status |-> "ok", result |-> acc.result]

\* LevelSequenceNode.add_cameras
add_cameras(w, cams, start_frame, match_camera_name, order, auto_frame_range) ==
    CHOOSE out \in
        { SetFrameRange(acc, start_frame, auto_frame_range) :
            acc \in { AddCamerasLoop(
                          [world |-> w, status |-> "ok", start_frame |-> start_frame,
                           result |-> <<>>, end |-> None],
                          cams, match_camera_name, order, auto_frame_range) } } : TRUE

\* sequence without the does_asset_exist test before create_asset
sequenceAlwaysCreates(st, path, create_new) ==
    LET st1 == IF create_new
               THEN [assets |-> st.assets \cup {path},
                     saved |-> st.saved \cup {path},
                     created |-> st.created + 1]
               ELSE st
    IN  [store |-> st1,
         node |-> IF path \in st1.assets THEN Some(path) ELSE None]

\* LevelSequenceNode.sequence on the asset store st = [assets, saved, created]
sequence(st, path, create_new) ==
    LET make == path \notin st.assets /\ create_new
        st1 == IF make
               THEN [assets |-> st.assets \cup {path},
                     saved |-> st.saved \cup {path},
                     created |-> st.created + 1]
               ELSE st
    IN  [store |-> st1,
         node |-> IF path \in st1.assets THEN Some(path) ELSE None]

(***************************************************************************)
(* The host module: what getattr(unreal, name, None) finds.                *)
(***************************************************************************)
CACHE_CLASSES == <<"LevelSequence", "StaticMesh", "Blueprint">>

\* the classes of the host module
HostClasses == {"LevelSequence", "StaticMesh", "Blueprint", "CineCameraActor"}
\* its attributes that are no classes (unreal.log is a function)
HostFunctions == {"log"}
HostAttributes == HostClasses \cup HostFunctions
\* the node types asked for: None, host attributes, and a name the host lacks
NodeTypes == HostAttributes \cup {"Nope"}
OptNodeTypes == {None} \cup {Some(t) : t \in NodeTypes}

TextLine == [kind |-> "text", name |-> "", property_type |-> "", permission |-> ""]
PropertyLine(n, t, perm) ==
    [kind |-> "property", name |-> n, property_type |-> t, permission |-> perm]

\* __doc__ of a host attribute, line by line: a line either has the form
\* "- ``name`` (type):  [permission] description" or is other text
HostDoc(node_type) ==
    CASE node_type = "StaticMesh" ->
            << TextLine,
               PropertyLine("light_map_resolution", "int32", "Read-Write"),
               TextLine,
               PropertyLine("lod_group", "Name", "Read-Only") >>
      [] node_type = "LevelSequence" ->
            << TextLine, PropertyLine("director_blueprint", "Object", "Read-Write") >>
      [] OTHER -> << TextLine >>

Attr(a, t, groups) == [attr |-> a, type |-> t, groups |-> groups]
Group(t, perm) == [property_type |-> t, permission |-> perm]

\* dir() of a host attribute in its (sorted) order: the name, the type name
\* of the attribute object and the groups the pattern finds in its __doc__
HostDir(node_type) ==
    CASE node_type = "StaticMesh" ->
            << Attr("__class__", "type", <<>>),
               Attr("__doc__", "getset_descriptor", << Group("str", "Read-Only") >>),
               Attr("build", "method_descriptor", << Group("bool", "Read-Write") >>),
               Attr("light_map_resolution", "getset_descriptor",
                    << Group("int32", "Read-Write") >>),
               Attr("lod_group", "getset_descriptor", << Group("Name", "Read-Only") >>),
               Attr("static_class", "builtin_function_or_method", <<>>) >>
      [] node_type = "LevelSequence" ->
            << Attr("__class__", "type", <<>>),
               Attr("director_blueprint", "getset_descriptor", <<>>),
               Attr("get_playback_start", "method_descriptor", <<>>) >>
      [] OTHER -> << Attr("__class__", "type", <<>>) >>

\* PropertyCategory
EDITOR == "EDITOR"
CLASS == "CLASS"
PropertyCategory == {EDITOR, CLASS}

(***************************************************************************)
(* NodeCache.                                                              *)
(***************************************************************************)
\* NodeCache.__init__
NewNodeCache(id, node_type) ==
    [ id |-> id, node_type |-> node_type,
      editor_properties |-> None, editor_property_names |-> None,
      class_properties |-> None, class_property_names |-> None ]

\* NodeCacheSingleton.__call__ without the "not in __CACHE_DATA" test
NodeCacheCallAlwaysNew(st, node_type) ==
    IF node_type = None \/ node_type[1] \notin HostAttributes
    THEN [st |-> st, status |-> "NodeCacheError", value |-> None]
    ELSE
        LET t == node_type[1]
            id == Cardinality(DOMAIN st.cache) + 1
            st1 == [cache |-> [x \in DOMAIN st.cache \cup {t} |->
                                  IF x = t THEN NewNodeCache(id, t) ELSE st.cache[x]],
                    constructed |-> [st.constructed EXCEPT ![t] = @ + 1]]
        IN  [st |-> st1, status |-> "ok", value |-> Some(st1.cache[t].id)]

\* NodeCacheSingleton.__call__ on st = [cache, constructed]
NodeCacheCall(st, node_type) ==
    IF node_type = None \/ node_type[1] \notin HostAttributes
    THEN [st |-> st, status |-> "NodeCacheError", value |-> None]
    ELSE
        LET t == node_type[1]
            id == Cardinality(DOMAIN st.cache) + 1
            st1 == IF t \notin DOMAIN st.cache
                   THEN [cache |-> [x \in DOMAIN st.cache \cup {t} |->
                                       IF x = t THEN NewNodeCache(id, t)
                                       ELSE st.cache[x]],
                         constructed |-> [st.constructed EXCEPT ![t] = @ + 1]]
                   ELSE st
        IN  [st |-> st1, status |-> "ok", value |-> Some(st1.cache[t].id)]

RECURSIVE GenerateDefaultCaches(_, _)
\* _generate_default_caches, run when the module is imported
GenerateDefaultCaches(st, names) ==
    IF names = <<>> THEN st
    ELSE GenerateDefaultCaches(NodeCacheCall(st, Some(Head(names))).st, Tail(names))

Names(properties) == [i \in 1..Len(properties) |-> properties[i].name]

\* find_groups with the pattern of editor_properties over the doc
FindEditorGroups(doc) ==
    LET IsProperty(line) == line.kind = "property"
        lines == SelectSeq(doc, IsProperty)
    IN  [i \in 1..Len(lines) |->
            [name |-> lines[i].name, property_type |-> lines[i].property_type,
             permission |-> lines[i].permission, category |-> EDITOR]]

\* NodeCache.editor_properties
editor_properties(c) ==
    IF c.editor_properties = None
    THEN LET result == FindEditorGroups(HostDoc(c.node_type))
             c1 == [c EXCEPT !.editor_properties =
                                 IF result # <<>> THEN Some(result) ELSE None]
         IN  [c |-> c1, status |-> "ok", value |-> c1.editor_properties]
    ELSE [c |-> c, status |-> "ok", value |-> c.editor_properties]

\* NodeCache.editor_property_names
editor_property_names(c) ==
    IF c.editor_property_names = None
    THEN LET r == editor_properties(c)
         IN  IF r.value = None
             THEN [c |-> r.c, status |-> "TypeError", value |-> None]
             ELSE LET c1 == [r.c EXCEPT !.editor_property_names =
                                            Some(Names(r.value[1]))]
                  IN  [c |-> c1, status |-> "ok", value |-> c1.editor_property_names]
    ELSE [c |-> c, status |-> "ok", value |-> c.editor_property_names]

RECURSIVE ClassPropertiesLoop(_, _)
\* the loop of class_properties over dir(self._node_cls)
ClassPropertiesLoop(result, attrs) ==
    IF attrs = <<>> THEN result
    ELSE LET a == Head(attrs)
             skip == \/ SubSeq(a.attr, 1, 2) = "__"
                     \/ a.type # "getset_descriptor"
             found == [i \in 1..Len(a.groups) |->
                          [name |-> a.attr, property_type |-> a.groups[i].property_type,
                           permission |-> a.groups[i].permission, category |-> CLASS]]
         IN  ClassPropertiesLoop(IF skip THEN result ELSE result \o found, Tail(attrs))

\* NodeCache.class_properties: the return statement is inside the
\* "is None" branch, so a read after the list was stored returns None
class_properties(c) ==
    IF c.class_properties = None
    THEN LET result == ClassPropertiesLoop(<<>>, HostDir(c.node_type))
             c1 == [c EXCEPT !.class_properties =
                                 IF result # <<>> THEN Some(result) ELSE None]
         IN  [c |-> c1, status |-> "ok", value |-> c1.class_properties]
    ELSE [c |-> c, status |-> "ok", value |-> None]

\* NodeCache.class_property_names
class_property_names(c) ==
    IF c.class_property_names = None
    THEN LET r == class_properties(c)
         IN  IF r.value = None
             THEN [c |-> r.c, status |-> "TypeError", value |-> None]
             ELSE LET c1 == [r.c EXCEPT !.class_property_names =
                                            Some(Names(r.value[1]))]
                  IN  [c |-> c1, status |-> "ok", value |-> c1.class_property_names]
    ELSE [c |-> c, status |-> "ok", value |-> c.class_property_names]

\* names.index(name)
Index(names, name) == Min({i \in 1..Len(names) : names[i] = name})

\* the end of property_by_name: "if name in names: return pool[index]"
Lookup(c, pool, names, name) ==
    IF names = None THEN [c |-> c, status |-> "TypeError", value |-> None]
    ELSE IF \E i \in 1..Len(names[1]) : names[1][i] = name
    THEN IF pool = None THEN [c |-> c, status |-> "TypeError", value |-> None]
         ELSE [c |-> c, status |-> "ok",
               value |-> Some(pool[1][Index(names[1], name)])]
    ELSE [c |-> c, status |-> "ok", value |-> None]

\* NodeCache.property_by_name
property_by_name(c, name, property_category) ==
    IF property_category = EDITOR
    THEN LET pool == editor_properties(c)
             names == editor_property_names(pool.c)
         IN  IF names.status # "ok" THEN names
             ELSE Lookup(names.c, pool.value, names.value, name)
    ELSE LET pool == class_properties(c)
         IN  Lookup(pool.c, pool.value, pool.c.class_property_names, name)

(***************************************************************************)
(* NodeBase.                                                               *)
(***************************************************************************)
\* depth of the Python call stack at which RecursionError is raised
RecursionLimit == 4

\* what a LevelSequenceNode defines itself (instance, class and bases)
WrapperAttrs == {"node", "node_type", "_node", "_ins_cache", "doc", "open", "fps"}
\* what the wrapped unreal.LevelSequence defines
NodeAttrs == {"get_playback_start", "get_display_rate", "doc", "fps"}
Items == {"node", "fps", "get_playback_start", "nope"}

RECURSIVE NodeBase_getattr(_, _)
\* NodeBase.__getattr__(item), entered with depth frames on the stack.
\* getattr(self, item, NodeMissAttr) looks item up on the wrapper the usual
\* way; when that finds nothing Python calls __getattr__ again, and the
\* default replaces an AttributeError only
NodeBase_getattr(depth, item) ==
    IF depth > RecursionLimit THEN [status |-> "RecursionError", value |-> None]
    ELSE
        LET inner == IF item \in WrapperAttrs
                     THEN [status |-> "ok", value |-> Some(<<"wrapper", item>>)]
                     ELSE NodeBase_getattr(depth + 1, item)
        IN  IF inner.status = "RecursionError" THEN inner
            ELSE IF inner.status = "ok" THEN inner
            ELSE IF item \in NodeAttrs
            THEN [status |-> "ok", value |-> Some(<<"node", item>>)]
            ELSE [status |-> "AttributeError", value |-> None]

\* reading wrapper.item: __getattr__ runs only when the usual lookup fails
ReadAttr(item) ==
    IF item \in WrapperAttrs
    THEN [status |-> "ok", value |-> Some(<<"wrapper", item>>)]
    ELSE NodeBase_getattr(1, item)

(***************************************************************************)
(* The calls.                                                              *)
(***************************************************************************)
NoCall ==
    [ op |-> "none", fbx_path |-> "", name |-> None, start_frame |-> None,
      match_camera_name |-> FALSE, order |-> stack, auto_frame_range |-> FALSE,
      new_section |-> FALSE, proxy |-> None, cameras |-> <<>>,
      path |-> "", create_new |-> FALSE,
      status |-> "none", result |-> <<>>, node |-> None,
      pre |-> NewWorld, preStore |-> [assets |-> {}, saved |-> {}, created |-> 0] ]

NoNodeCall ==
    [ op |-> "none", node_type |-> None, name |-> "", category |-> EDITOR,
      status |-> "none", value |-> None,
      pre |-> [cache |-> <<>>, constructed |-> <<>>] ]

\* the caches after "import pysequencer"
DefaultCaches ==
    GenerateDefaultCaches(
        [cache |-> <<>>, constructed |-> [t \in NodeTypes |-> 0]], CACHE_CLASSES)

\* a sequence that was saved earlier with a prop in it
PropWorld ==
    [NewWorld EXCEPT !.spawnables =
        << [name |-> "shot_0010", isCamera |-> FALSE, channels |-> <<>>] >>]

Init ==
    /\ assets \in {{}, {SequencePath}}
    /\ world = IF SequencePath \in assets THEN PropWorld ELSE NewWorld
    /\ saved = {}
    /\ created = 0
    /\ ops = 0
    /\ last = NoCall
    /\ cache = DefaultCaches.cache
    /\ constructed = DefaultCaches.constructed
    /\ nlast = NoNodeCall

Store == [assets |-> assets, saved |-> saved, created |-> created]

Sequence(path, create_new) ==
    /\ ops < MaxOps
    /\ LET r == sequence(Store, path, create_new)
       IN  /\ assets' = r.store.assets
           /\ saved' = r.store.saved
           /\ created' = r.store.created
           /\ last' = [NoCall EXCEPT !.op = "sequence", !.path = path,
                           !.create_new = create_new, !.node = r.node,
                           !.status = "ok", !.pre = world, !.preStore = Store]
    /\ ops' = ops + 1
    /\ UNCHANGED <<world, nodeVars>>

ImportCamera(fbx_path, proxy, name, start_frame, new_section) ==
    /\ ops < MaxOps
    /\ SequencePath \in assets
    /\ LET r == import_camera(world, fbx_path, proxy, name, start_frame, new_section)
       IN  /\ world' = r.world
           /\ last' = [NoCall EXCEPT !.op = "import_camera", !.fbx_path = fbx_path,
                           !.proxy = proxy, !.name = name,
                           !.start_frame = start_frame, !.new_section = new_section,
                           !.status = r.status,
                           !.result = IF r.status = "ok" THEN <<r.camera>> ELSE <<>>,
                           !.pre = world, !.preStore = Store]
    /\ ops' = ops + 1
    /\ UNCHANGED <<assets, saved, created, nodeVars>>

AddCamera(fbx_path, name, start_frame, match_camera_name) ==
    /\ ops < MaxOps
    /\ SequencePath \in assets
    /\ LET r == add_camera(world, fbx_path, name, start_frame, match_camera_name)
       IN  /\ world' = r.world
           /\ last' = [NoCall EXCEPT !.op = "add_camera", !.fbx_path = fbx_path,
                           !.name = name, !.start_frame = start_frame,
                           !.match_camera_name = match_camera_name,
                           !.new_section = TRUE,
                           !.status = r.status,
                           !.result = IF r.status = "ok" THEN <<r.camera>> ELSE <<>>,
                           !.pre = world, !.preStore = Store]
    /\ ops' = ops + 1
    /\ UNCHANGED <<assets, saved, created, nodeVars>>

AddCameras(cams, start_frame, match_camera_name, order, auto_frame_range) ==
    /\ ops < MaxOps
    /\ SequencePath \in assets
    /\ LET r == add_cameras(world, cams, start_frame, match_camera_name, order,
                            auto_frame_range)
       IN  /\ world' = r.world
           /\ last' = [NoCall EXCEPT !.op = "add_cameras", !.cameras = cams,
                           !.start_frame = start_frame,
                           !.match_camera_name = match_camera_name,
                           !.order = order, !.auto_frame_range = auto_frame_range,
                           !.new_section = TRUE,
                           !.status = r.status, !.result = r.result,
                           !.pre = world, !.preStore = Store]
    /\ ops' = ops + 1
    /\ UNCHANGED <<assets, saved, created, nodeVars>>

CallSequence == \E path \in Paths, create_new \in BOOLEAN : Sequence(path, create_new)

CallImportCamera ==
    \E fbx_path \in FbxFiles, start_frame \in OptStartFrames, new_section \in BOOLEAN,
       target \in {<<None, None>>, <<None, Some("shot_0010")>>}
                   \cup {<<Some(i), None>> : i \in cameras(world)} :
        ImportCamera(fbx_path, target[1], target[2], start_frame, new_section)

CallAddCamera ==
    \E fbx_path \in FbxFiles, name \in OptNames, start_frame \in OptStartFrames,
       match_camera_name \in BOOLEAN :
        AddCamera(fbx_path, name, start_frame, match_camera_name)

CallAddCameras ==
    \E cams \in CameraLists, start_frame \in OptStartFrames,
       match_camera_name \in BOOLEAN, order \in CameraOrder,
       auto_frame_range \in BOOLEAN :
        AddCameras(cams, start_frame, match_camera_name, order, auto_frame_range)

\* one camera at a time
Next == CallSequence \/ CallImportCamera \/ CallAddCamera

Spec == Init /\ [][Next]_vars

\* lists of cameras
NextCameras == CallSequence \/ CallAddCamera \/ CallAddCameras

SpecCameras == Init /\ [][NextCameras]_vars

\* SequenceCamera(proxy).set_start_frame(start) on a camera of the sequence;
\* a camera without keys has start None and "start - self.start" raises
SetStartFrame(proxy, start) ==
    /\ ops < MaxOps
    /\ SequencePath \in assets
    /\ proxy \in cameras(world)
    /\ LET camera == SetupCameraData(world, proxy)
           r == IF camera.start = None
                THEN [world |-> world, camera |-> NoCamera]
                ELSE set_start_frame(world, camera, start)
       IN  /\ world' = r.world
           /\ last' = [NoCall EXCEPT !.op = "set_start_frame",
                           !.proxy = Some(proxy), !.start_frame = Some(start),
                           !.status = IF camera.start = None THEN "TypeError"
                                      ELSE "ok",
                           !.result = IF camera.start = None THEN <<>>
                                      ELSE <<r.camera>>,
                           !.pre = world, !.preStore = Store]
    /\ ops' = ops + 1
    /\ UNCHANGED <<assets, saved, created, nodeVars>>

CallSetStartFrame ==
    \E proxy \in 1..Len(world.spawnables), start \in StartFrames :
        SetStartFrame(proxy, start)

\* moving the keys of a camera
NextStart == CallSequence \/ CallAddCamera \/ CallSetStartFrame

SpecStart == Init /\ [][NextStart]_vars

Caches == [cache |-> cache, constructed |-> constructed]

NodeCacheNew(node_type) ==
    /\ LET r == NodeCacheCall(Caches, node_type)
       IN  /\ cache' = r.st.cache
           /\ constructed' = r.st.constructed
           /\ nlast' = [NoNodeCall EXCEPT !.op = "NodeCache", !.node_type = node_type,
                            !.status = r.status, !.value = r.value, !.pre = Caches]
    /\ UNCHANGED seqVars

\* one read of a lazy accessor of the NodeCache of node type t
Accessor(c, accessor) ==
    CASE accessor = "editor_properties" -> editor_properties(c)
      [] accessor = "editor_property_names" -> editor_property_names(c)
      [] accessor = "class_properties" -> class_properties(c)
      [] OTHER -> class_property_names(c)

Accessors ==
    {"editor_properties", "editor_property_names", "class_properties",
     "class_property_names"}

ReadAccessor(t, accessor) ==
    /\ t \in DOMAIN cache
    /\ LET r == Accessor(cache[t], accessor)
       IN  /\ cache' = [cache EXCEPT ![t] = r.c]
           /\ nlast' = [NoNodeCall EXCEPT !.op = accessor, !.node_type = Some(t),
                            !.status = r.status, !.value = r.value, !.pre = Caches]
    /\ UNCHANGED <<constructed, seqVars>>

PropertyByName(t, name, property_category) ==
    /\ t \in DOMAIN cache
    /\ LET r == property_by_name(cache[t], name, property_category)
       IN  /\ cache' = [cache EXCEPT ![t] = r.c]
           /\ nlast' = [NoNodeCall EXCEPT !.op = "property_by_name",
                            !.node_type = Some(t), !.name = name,
                            !.category = property_category,
                            !.status = r.status, !.value = r.value, !.pre = Caches]
    /\ UNCHANGED <<constructed, seqVars>>

GetAttr(item) ==
    /\ LET r == ReadAttr(item)
       IN  nlast' = [NoNodeCall EXCEPT !.op = "getattr", !.name = item,
                         !.status = r.status, !.value = r.value, !.pre = Caches]
    /\ UNCHANGED <<cache, constructed, seqVars>>

PropertyNames == {"lod_group", "director_blueprint", "nope"}

NextNode ==
    \/ \E node_type \in OptNodeTypes : NodeCacheNew(node_type)
    \/ \E t \in NodeTypes, accessor \in Accessors : ReadAccessor(t, accessor)
    \/ \E t \in NodeTypes, name \in PropertyNames, category \in PropertyCategory :
          PropertyByName(t, name, category)
    \/ \E item \in Items : GetAttr(item)

SpecNode == Init /\ [][NextNode]_vars

(***************************************************************************)
(* Properties.                                                             *)
(***************************************************************************)
\* the name add_camera works with: "name or fbx_path.stem"
LastName == IF last.name = None THEN Stem(last.fbx_path) ELSE last.name[1]

\* the sections of the camera cut track of w whose binding id is proxy's
SectionsOf(w, proxy) == {i \in 1..Len(w.sections) : w.sections[i].binding = proxy}

\* C1: for every integer start_frame given to add_camera (0 and negative
\* ones too), when the FBX import succeeds and leaves at least one channel
\* with keys, the returned camera's start equals start_frame.
C1_StartIsStartFrame ==
    ( /\ last.op = "add_camera"
      /\ last.start_frame # None
      /\ FbxImportStatus(last.fbx_path)
      /\ KeyedChannels(FbxChannels(last.fbx_path)) # {} )
    => /\ last.status = "ok"
       /\ last.result[1].start = last.start_frame

\* C2: add_camera never returns None: it returns a SequenceCamera when the
\* FBX import reports success and raises LevelSequenceNodeError when the
\* import reports failure.
C2_CameraOrError ==
    last.op = "add_camera"
    => /\ last.status # "None"
       /\ FbxImportStatus(last.fbx_path)
            => (last.status = "ok" /\ Len(last.result) = 1
                /\ last.result[1].proxy \in cameras(world))
       /\ ~FbxImportStatus(last.fbx_path) => last.status = "LevelSequenceNodeError"

\* the camera names of a list of camera data are pairwise distinct
DistinctNames(cams) ==
    \A i, j \in 1..Len(cams) :
        (i # j /\ cams[i] # <<>> /\ cams[j] # <<>>) => cams[i][1][1] # cams[j][1][1]

\* C3: add_cameras with order one_by_one, a start_frame and distinct camera
\* names: the first returned camera starts at start_frame and every later
\* one at the end of the one before it plus 1.
C3_OneByOne ==
    ( /\ last.op = "add_cameras"
      /\ last.order = one_by_one
      /\ last.start_frame # None
      /\ DistinctNames(last.cameras)
      /\ last.status = "ok"
      /\ last.result # <<>> )
    => /\ last.result[1].start = last.start_frame
       /\ \A i \in 2..Len(last.result) :
            /\ last.result[i].start = Some(last.result[i - 1].end[1] + 1)
            /\ last.result[i - 1].end[1] < last.result[i].start[1]

\* C4: after add_cameras returns with auto_frame_range the playback start
\* is the start_frame argument, the playback end the largest end of the
\* returned cameras, and the playback range holds every returned camera.
C4_PlaybackRange ==
    ( /\ last.op = "add_cameras"
      /\ last.auto_frame_range
      /\ last.status = "ok" )
    => /\ world.playback.start = last.start_frame
       /\ last.result # <<>>
       /\ world.playback.end =
            Some(Max({last.result[i].end[1] : i \in 1..Len(last.result)}))
       /\ \A i \in 1..Len(last.result) :
            /\ world.playback.start[1] <= last.result[i].start[1]
            /\ last.result[i].end[1] <= world.playback.end[1]

\* C5: after import_camera succeeds with new_section the camera cut track
\* has a section bound to the camera, every section bound to it has the
\* range (camera.start, camera.end) measured after the shift, and a section
\* was added only when the camera had none before.
C5_CameraCutSection ==
    ( /\ last.op \in {"import_camera", "add_camera"}
      /\ last.new_section
      /\ last.status = "ok" )
    => LET camera == last.result[1]
           bound == SectionsOf(world, camera.proxy)
           before == SectionsOf(last.pre, camera.proxy)
       IN  /\ world.cutTrack
           /\ bound # {}
           /\ camera = SetupCameraData(world, camera.proxy)
           /\ \A i \in bound :
                world.sections[i].range = Some(<<camera.start[1], camera.end[1]>>)
           /\ Len(world.sections) =
                Len(last.pre.sections) + (IF before = {} THEN 1 ELSE 0)

\* a camera that had a section is imported again with a shift
C5_Witness ==
    /\ last.op = "import_camera"
    /\ last.new_section
    /\ last.status = "ok"
    /\ last.start_frame = Some(1)
    /\ last.proxy # None
    /\ SectionsOf(last.pre, last.result[1].proxy) # {}
    /\ last.pre.sections # world.sections

\* the cameras of w with the display name nm
CamerasNamed(w, nm) ==
    {i \in 1..Len(w.spawnables) : w.spawnables[i].isCamera /\ w.spawnables[i].name = nm}

\* C6: add_camera with match_camera_name and the name of a camera of the
\* sequence imports into that binding, spawns no actor and adds no binding;
\* otherwise it adds exactly one camera binding.
C6_MatchCameraName ==
    last.op = "add_camera"
    => LET existing == CamerasNamed(last.pre, LastName)
       IN  IF last.match_camera_name /\ existing # {}
           THEN /\ world.spawned = last.pre.spawned
                /\ Len(world.spawnables) = Len(last.pre.spawnables)
                /\ cameras(world) = cameras(last.pre)
                /\ last.status = "ok" => last.result[1].proxy \in existing
           ELSE /\ Len(world.spawnables) = Len(last.pre.spawnables) + 1
                /\ cameras(world) = cameras(last.pre) \cup {Len(world.spawnables)}
                /\ world.spawnables[Len(world.spawnables)].name = LastName

\* add_camera found the camera by its name and imported into it
C6_Witness ==
    /\ last.op = "add_camera"
    /\ last.match_camera_name
    /\ CamerasNamed(last.pre, LastName) # {}
    /\ last.status = "ok"
    /\ last.pre.spawnables # world.spawnables

\* C7: sequence(path, create_new) returns the node of an existing asset and
\* creates nothing; for a missing asset it creates and saves exactly one
\* and returns its node if create_new, else returns None and changes nothing.
C7_Sequence ==
    last.op = "sequence"
    => LET pre == last.preStore
           exists == last.path \in pre.assets
       IN  /\ exists => (last.node = Some(last.path) /\ Store = pre)
           /\ (~exists /\ last.create_new)
                => /\ created = pre.created + 1
                   /\ assets = pre.assets \cup {last.path}
                   /\ saved = pre.saved \cup {last.path}
                   /\ last.node = Some(last.path)
           /\ (~exists /\ ~last.create_new) => (last.node = None /\ Store = pre)

\* a missing asset was created
C7_Witness ==
    /\ last.op = "sequence"
    /\ last.path \notin last.preStore.assets
    /\ last.create_new
    /\ last.node = Some(last.path)

\* every node type with a NodeCache had exactly one constructed, the others
\* none, and the call returned the instance the cache holds for its name
OneInstancePerType ==
    /\ \A t \in NodeTypes : constructed[t] = (IF t \in DOMAIN cache THEN 1 ELSE 0)
    /\ \A t, u \in DOMAIN cache : cache[t].id = cache[u].id => t = u
    /\ \A t \in DOMAIN nlast.pre.cache :
          t \in DOMAIN cache /\ cache[t].id = nlast.pre.cache[t].id

\* what a NodeCache(node_type) call does when the names in accepted are the
\* ones it takes
NodeCacheContract(accepted) ==
    nlast.op = "NodeCache"
    => IF nlast.node_type # None /\ nlast.node_type[1] \in accepted
       THEN /\ nlast.status = "ok"
            /\ nlast.node_type[1] \in DOMAIN cache
            /\ nlast.value = Some(cache[nlast.node_type[1]].id)
            /\ DOMAIN cache = DOMAIN nlast.pre.cache \cup {nlast.node_type[1]}
       ELSE /\ nlast.status = "NodeCacheError"
            /\ cache = nlast.pre.cache
            /\ constructed = nlast.pre.constructed

\* C8 as stated: calls with the same valid host class name return the one
\* instance, at most one is constructed per node type, and a call with no
\* node_type or with a name that is not a host class raises NodeCacheError
\* and adds no entry.
C8_HostClassesOnly == OneInstancePerType /\ NodeCacheContract(HostClasses)

\* C8 as amended: the same, where the names that raise NodeCacheError are
\* the ones the host module has no attribute for; the name of an attribute
\* that is no class (a function) gets a NodeCache like a class name.
C8_NodeCacheSingleton == OneInstancePerType /\ NodeCacheContract(HostAttributes)

\* NodeCache was called again with a name that already had its instance
C8_Witness ==
    /\ nlast.op = "NodeCache"
    /\ nlast.node_type = Some("CineCameraActor")
    /\ "CineCameraActor" \in DOMAIN nlast.pre.cache
    /\ nlast.status = "ok"

\* C9: reading an attribute the wrapper does not define and the wrapped
\* node does ends with the wrapped node's attribute value.
C9_Delegation ==
    ( /\ nlast.op = "getattr"
      /\ nlast.name \notin WrapperAttrs
      /\ nlast.name \in NodeAttrs )
    => /\ nlast.status = "ok"
       /\ nlast.value = Some(<<"node", nlast.name>>)

\* the descriptors of a category that the host documents for a node type
Descriptors(node_type, category) ==
    IF category = EDITOR THEN FindEditorGroups(HostDoc(node_type))
    ELSE ClassPropertiesLoop(<<>>, HostDir(node_type))

\* C10: property_by_name(name, category) returns the descriptor of that
\* category with that name, or None when there is none, whatever accessors
\* were read before; the lazy accessors keep returning the same list.
C10_PropertyByName ==
    /\ nlast.op = "property_by_name"
       => LET pool == Descriptors(nlast.node_type[1], nlast.category)
              found == {i \in 1..Len(pool) : pool[i].name = nlast.name}
          IN  /\ nlast.status = "ok"
              /\ nlast.value = (IF found = {} THEN None ELSE Some(pool[Min(found)]))
    /\ nlast.op \in {"editor_properties", "class_properties"}
       => LET pool == Descriptors(nlast.node_type[1],
                          IF nlast.op = "editor_properties" THEN EDITOR ELSE CLASS)
          IN  pool # <<>> => (nlast.status = "ok" /\ nlast.value = Some(pool))
    /\ nlast.op \in {"editor_property_names", "class_property_names"}
       => LET pool == Descriptors(nlast.node_type[1],
                          IF nlast.op = "editor_property_names" THEN EDITOR ELSE CLASS)
          IN  pool # <<>> => (nlast.status = "ok" /\ nlast.value = Some(Names(pool)))

\* C11: set_start_frame(s) moves every key of every channel of the camera
\* by the same amount, s minus the camera's start before the call, so the
\* distance between any two keys, of one channel or of two, and the length
\* end - start of the camera stay what they were.
C11_UniformTranslation ==
    ( /\ last.op = "set_start_frame"
      /\ last.status = "ok" )
    => LET p == last.proxy[1]
           before == last.pre.spawnables[p].channels
           after == world.spawnables[p].channels
           was == SetupCameraData(last.pre, p)
           now == last.result[1]
           amount == last.start_frame[1] - was.start[1]
       IN  /\ Len(after) = Len(before)
           /\ \A i \in 1..Len(before) :
                /\ Len(after[i]) = Len(before[i])
                /\ \A k \in 1..Len(before[i]) : after[i][k] = before[i][k] + amount
           /\ \A i, j \in 1..Len(before) :
                \A k \in 1..Len(before[i]), l \in 1..Len(before[j]) :
                    after[i][k] - after[j][l] = before[i][k] - before[j][l]
           /\ now.end[1] - now.start[1] = was.end[1] - was.start[1]

====
